---- MODULE Spec2Model ----
(***************************************************************************)
(* Model of the block-agents pipeline engine: Pipeline construction and    *)
(* validation (core/pipeline.py), Pipeline.execute and its helpers,        *)
(* Block.execute (core/block.py), Context (core/context.py) and            *)
(* StreamManager (core/stream.py).                                         *)
(*                                                                         *)
(* Three specifications share the variables:                               *)
(*   SpecBuild  - Pipeline.__init__ applied to bounded definitions;        *)
(*   Spec       - runs of Pipeline.execute on constructed pipelines;       *)
(*   SpecStream - a StreamManager driven by emit / subscriber calls.       *)
(***************************************************************************)
EXTENDS Integers, Sequences, FiniteSets, TLC

VARIABLES
    mode,       \* which part of the program the behaviour exercises
    pdef,       \* the pipeline definition handed to Pipeline.__init__
    built,      \* outcome of Pipeline.__init__ (pipeline fields or the error)
    cfg,        \* Config values read by the engine (max runtime)
    globals,    \* Context._global_values
    blockvals,  \* Context._block_values
    sm,         \* StreamManager fields
    recv,       \* per subscriber: the events its callback was called with
                \* (in the current run, or by the last emit call)
    now,        \* wall clock (time.time()), in milliseconds
    run,        \* locals of the current Pipeline.execute call
    hist,       \* record of what the current run did (observation only)
    nruns,      \* number of execute calls started so far
    env,        \* the family of inputs the behaviour draws from
    emits       \* the last emit call made on a stand-alone StreamManager

vars == <<mode, pdef, built, cfg, globals, blockvals, sm, recv, now, run, hist,
          nruns, env, emits>>

----------------------------------------------------------------------------
(* Bounds *)

\* largest number of block specs in a definition handed to the constructor
MaxBlocks == 3

\* Python's None (dict.get default, "no output declared")
None == "<None>"

\* block ids used by the constructor runs; "" is the id that is falsy in Python
BuildIds == {"", "a", "b"}

\* Python truthiness of an id-valued expression (None and "" are falsy)
Truthy(x) == x # None /\ x # ""

----------------------------------------------------------------------------
(* Pipeline definitions.  A block spec is [id, next, timeout]; 'next' is    *)
(* kept as a set: the code only iterates it, and order or repetition in it *)
(* changes nothing but which error message is produced first.              *)

\* default of config.get("timeout_seconds", 60), in seconds
DefaultTimeout == 60

\* default of config.get("max_pipeline_runtime_seconds", 3600), in seconds
DefaultMaxRuntime == 3600

BlockIds(d) == {d.blocks[i].id : i \in 1..Len(d.blocks)}

\* 'next' of the first block spec carrying the id (the lookup loop of the
\* cycle check; {} when no spec carries it, where the check returns False)
NextOf(d, id) ==
    LET idx == {i \in 1..Len(d.blocks) : d.blocks[i].id = id}
    IN  IF idx = {} THEN {}
        ELSE d.blocks[CHOOSE i \in idx : \A j \in idx : i <= j].next

\* a variant of the cycle check that marks a node visited for the whole
\* traversal instead of per path
RECURSIVE VisitShared(_, _, _)
VisitShared(todo, visited, d) ==
    IF todo = {} THEN [cyc |-> FALSE, vis |-> visited]
    ELSE LET id == CHOOSE x \in todo : TRUE IN
         IF id \in visited THEN [cyc |-> TRUE, vis |-> visited]
         ELSE LET sub == VisitShared(NextOf(d, id), visited \cup {id}, d)
              IN  IF sub.cyc THEN sub
                  ELSE VisitShared(todo \ {id}, sub.vis, d)

CheckCircularShared(block_id, visited, d) ==
    VisitShared({block_id}, visited, d).cyc

\* a variant of the cycle check that looks no further than the block's own
\* successors
CheckCircularSelfLoops(block_id, visited, d) ==
    block_id \in visited \/ block_id \in NextOf(d, block_id)

\* Pipeline._check_circular_dependency
RECURSIVE CheckCircular(_, _, _)
CheckCircular(block_id, visited, d) ==
    IF block_id \in visited THEN TRUE
    ELSE \E n \in NextOf(d, block_id) :
            CheckCircular(n, visited \cup {block_id}, d)

\* Pipeline._validate_pipeline_def: the error it raises, or None
ValidateDef(d) ==
    IF d.shape # "ok" THEN d.shape
    ELSE IF \E i, j \in 1..Len(d.blocks) : i # j /\ d.blocks[i].id = d.blocks[j].id
         THEN "duplicate_id"
    ELSE IF \E i \in 1..Len(d.blocks) : \E n \in d.blocks[i].next : n \notin BlockIds(d)
         THEN "bad_reference"
    ELSE IF \E id \in BlockIds(d) : CheckCircular(id, {}, d)
         THEN "circular"
    ELSE None

\* a variant that puts each further predecessor in front of the list
RECURSIVE DepsOfReversed(_, _, _)
DepsOfReversed(d, id, i) ==
    IF i > Len(d.blocks) THEN <<>>
    ELSE DepsOfReversed(d, id, i + 1)
         \o (IF id \in d.blocks[i].next THEN <<d.blocks[i].id>> ELSE <<>>)

\* self.block_dependencies: for each id named in some 'next', the ids of the
\* blocks naming it, in the order of the block specs
RECURSIVE DepsOf(_, _, _)
DepsOf(d, id, i) ==
    IF i > Len(d.blocks) THEN <<>>
    ELSE (IF id \in d.blocks[i].next THEN <<d.blocks[i].id>> ELSE <<>>)
         \o DepsOf(d, id, i + 1)

BlockDependencies(d) ==
    LET targets == UNION {d.blocks[i].next : i \in 1..Len(d.blocks)}
    IN  [id \in targets |-> DepsOf(d, id, 1)]

\* self.entry_blocks: ids of self.blocks without dependencies, in dict order
RECURSIVE EntryFrom(_, _, _)
EntryFrom(d, deps, i) ==
    IF i > Len(d.blocks) THEN <<>>
    ELSE (IF d.blocks[i].id \notin DOMAIN deps \/ deps[d.blocks[i].id] = <<>>
          THEN <<d.blocks[i].id>> ELSE <<>>)
         \o EntryFrom(d, deps, i + 1)

EntryBlocks(d) == EntryFrom(d, BlockDependencies(d), 1)

\* the test of 'if self.output_block_id and self.output_block_id not in self.blocks'
OutputMissing(d) == Truthy(d.output) /\ d.output \notin BlockIds(d)

\* Pipeline.__init__: every failure is a PipelineDefinitionError
Construct(d) ==
    LET v == ValidateDef(d)
        failed(msg) == [ok |-> FALSE, error |-> "PipelineDefinitionError", msg |-> msg,
                        deps |-> <<>>, entry |-> <<>>, output |-> None]
    IN  IF v # None THEN failed(v)
        ELSE IF d.create_fail # 0 /\ d.blocks # <<>> THEN failed("create_block")
        ELSE IF EntryBlocks(d) = <<>> THEN failed("no_entry_points")
        ELSE IF OutputMissing(d) THEN failed("output_not_found")
        ELSE [ok |-> TRUE, error |-> None, msg |-> None,
              deps |-> BlockDependencies(d), entry |-> EntryBlocks(d),
              output |-> d.output]

----------------------------------------------------------------------------
(* StreamManager (core/stream.py).  Times are integers, in milliseconds.    *)

\* subscriber callbacks
Subs == {"s1", "s2"}

\* log_levels = {"debug": 0, "info": 1, "warning": 2, "error": 3}; a name
\* outside the table gets the default handed to dict.get
LogLevels == [debug |-> 0, info |-> 1, warning |-> 2, error |-> 3]

LevelRank(level, default) ==
    IF level \in DOMAIN LogLevels THEN LogLevels[level] ELSE default

\* a variant of the level test that also drops events at the minimum level
LevelDroppedStrict(s, level) == LevelRank(level, 0) <= LevelRank(s.log_level, 1)

\* 'if log_levels.get(level, 0) < log_levels.get(self.log_level, 1): return'
LevelDropped(s, level) == LevelRank(level, 0) < LevelRank(s.log_level, 1)

\* block_id.split("_")[0] on the block ids the model uses
LeadingSegment(block_id) ==
    CASE block_id = "text_1" -> "text"
      [] block_id = "text_2" -> "text"
      [] block_id = "llm_1"  -> "llm"
      [] OTHER -> block_id

\* a variant of the filter that lets the pipeline's own events through
TypeDroppedBlocksOnly(s, block_id) ==
    /\ s.include # {}
    /\ block_id # "pipeline"
    /\ LeadingSegment(block_id) \notin s.include

\* 'if self.include_block_types and block_id.split("_")[0] not in ...: return'
TypeDropped(s, block_id) ==
    s.include # {} /\ LeadingSegment(block_id) \notin s.include

\* key = f"{event_type}:{block_id}"
ThrottleKey(event_type, block_id) == event_type \o ":" \o block_id

\* a variant of the throttle test that also drops at exactly the interval
ThrottledInclusive(s, key, t) ==
    key \in DOMAIN s.last /\ t - s.last[key] <= s.throttle_ms

\* 'if key in self._last_event_time: ... if elapsed_ms < self.throttle_ms: return'
Throttled(s, key, t) ==
    key \in DOMAIN s.last /\ t - s.last[key] < s.throttle_ms

\* whether emit gets as far as building the StreamEvent
Accepts(s, event_type, block_id, level, t) ==
    /\ s.enabled
    /\ ~LevelDropped(s, level)
    /\ ~TypeDropped(s, block_id)
    /\ ~Throttled(s, ThrottleKey(event_type, block_id), t)

\* f with key k bound to v (dict item assignment)
SetKey(f, k, v) == [x \in DOMAIN f \cup {k} |-> IF x = k THEN v ELSE f[x]]

\* the StreamEvent as a subscriber sees it ('level' is kept for observation)
Event(event_type, block_id, level, t, data) ==
    [type |-> event_type, block |-> block_id, level |-> level, time |-> t,
     data |-> data]

\* StreamManager.add_subscriber
AddSub(s, c) ==
    IF \E i \in 1..Len(s.subscribers) : s.subscribers[i] = c THEN s
    ELSE [s EXCEPT !.subscribers = Append(@, c)]

\* StreamManager.remove_subscriber (list.remove drops the first occurrence)
RemoveSub(s, c) ==
    LET idx == {i \in 1..Len(s.subscribers) : s.subscribers[i] = c} IN
    IF idx = {} THEN s
    ELSE LET k == CHOOSE i \in idx : \A j \in idx : i <= j
         IN  [s EXCEPT !.subscribers =
                  SubSeq(s.subscribers, 1, k - 1) \o
                  SubSeq(s.subscribers, k + 1, Len(s.subscribers))]

\* the subscriber callbacks that raise whenever they are called
RaisingSubs == {"s2"}

\* callbacks that call back into the manager: "once" unsubscribes itself when
\* it is called, "adder" subscribes "s1"
MutatingSubs == {"once", "adder"}

\* self.subscribers after the callback c has run
AfterCallback(s, c) ==
    IF c = "once" THEN RemoveSub(s, c)
    ELSE IF c = "adder" THEN AddSub(s, "s1")
    ELSE s

\* a variant of the subscriber loop in which the exception of a callback
\* ends the loop
RECURSIVE FanOutFromAbort(_, _, _, _)
FanOutFromAbort(s, i, r, ev) ==
    IF i > Len(s.subscribers) THEN [sm |-> s, recv |-> r]
    ELSE LET c      == s.subscribers[i]
             called == [r EXCEPT ![c] = Append(@, ev)]
         IN  IF c \in RaisingSubs THEN [sm |-> s, recv |-> called]
             ELSE FanOutFromAbort(AfterCallback(s, c), i + 1, called, ev)

\* the subscriber loop of emit from position i on: the for statement reads
\* self.subscribers[i] from the list as it is at that moment and stops when i
\* is past its end; each callback is called with the event; an exception it
\* raises is caught and the loop goes on with the next position
RECURSIVE FanOutFrom(_, _, _, _)
FanOutFrom(s, i, r, ev) ==
    IF i > Len(s.subscribers) THEN [sm |-> s, recv |-> r]
    ELSE LET c      == s.subscribers[i]
             called == [r EXCEPT ![c] = Append(@, ev)]
         IN  IF c \in RaisingSubs
             THEN FanOutFrom(AfterCallback(s, c), i + 1, called, ev)
             ELSE FanOutFrom(AfterCallback(s, c), i + 1, called, ev)

\* the events handed to the callbacks by one emit, and the manager after it
FanOut(s, r, ev) == FanOutFrom(s, 1, r, ev)

\* StreamManager.emit at time t: the new manager fields and subscriber logs
Emit(s, r, t, event_type, block_id, level, data) ==
    IF Accepts(s, event_type, block_id, level, t)
    THEN FanOut([s EXCEPT !.last = SetKey(s.last, ThrottleKey(event_type, block_id), t)],
                r, Event(event_type, block_id, level, t, data))
    ELSE [sm |-> s, recv |-> r]

\* the payload the model keeps of an event's data
NoData == [etype |-> None, executed |-> {}, pending |-> {}]

\* StreamManager.emit_start
EmitStart(s, r, t, block_id) == Emit(s, r, t, "block_start", block_id, "info", NoData)

\* StreamManager.emit_complete
EmitComplete(s, r, t, block_id) == Emit(s, r, t, "block_complete", block_id, "info", NoData)

\* StreamManager.emit_error: a block_error event at level error carrying the
\* class name of the exception
EmitError(s, r, t, block_id, etype) ==
    Emit(s, r, t, "block_error", block_id, "error", [NoData EXCEPT !.etype = etype])

\* StreamManager.clear
ClearSm(s) == [s EXCEPT !.subscribers = <<>>, !.last = <<>>]

\* StreamManager.__init__
NewStreamManager(enabled, log_level, include, throttle_ms) ==
    [enabled |-> enabled, log_level |-> log_level, include |-> include,
     throttle_ms |-> throttle_ms, subscribers |-> <<>>, last |-> <<>>]

----------------------------------------------------------------------------
(* Values.  A block output is a mapping (a Python dict, kind "dict") or any *)
(* other value (kind "raw"); block inputs are mappings from keys to         *)
(* integers, 0 standing for None.                                          *)

\* largest payload value a block produces
MaxVal == 2

Raw(v) == [kind |-> "raw", m |-> <<>>, v |-> v]

Dict(m) == [kind |-> "dict", m |-> m, v |-> 0]

\* the default of Context.get_block_value for a block without output
NoValue == Raw(0)

\* the key blocks emit and read
OutKey == "x"

\* dict lookup with a default (dict.get)
Get(f, k, default) == IF k \in DOMAIN f THEN f[k] ELSE default

\* dict.update: g's items written over f's
Update(f, g) == [k \in DOMAIN f \cup DOMAIN g |-> IF k \in DOMAIN g THEN g[k] ELSE f[k]]

----------------------------------------------------------------------------
(* Block.execute (core/block.py) *)

\* what one invocation of a block does: the stage that raises (or None), the
\* class of the exception, the value process returns and how long it takes
Behaviour(fail, exc, out, dur) == [fail |-> fail, exc |-> exc, out |-> out, dur |-> dur]

\* a variant of the post-hoc timeout test that never fires
TimedOutNever(timeout, dur) == FALSE

\* 'if timeout and execution_time > timeout' (timeout in seconds)
TimedOut(timeout, dur) == timeout # 0 /\ dur > timeout * 1000

\* one call made by Block.execute: the operation, the exception class it
\* raised or was handed (None otherwise), the time since the invocation began
Call(op, arg, after) == [op |-> op, arg |-> arg, after |-> after]

\* the outcome of a stage of the try block on behaviour beh
StageExc(stage, timeout, beh) ==
    IF stage = "timeout_check"
    THEN IF TimedOut(timeout, beh.dur) THEN "BlockTimeoutError" ELSE None
    ELSE IF beh.fail = stage THEN beh.exc ELSE None

\* the statements of the try block, in order
TryStages == <<"validate_inputs", "process", "timeout_check", "validate_output">>

\* the time a stage ends, since the invocation began
StageEnd(stage, beh) == IF stage = "validate_inputs" THEN 0 ELSE beh.dur

RECURSIVE TryFromCompleteEarly(_, _, _)
RECURSIVE TryFrom(_, _, _)
RECURSIVE EmitCalls(_, _, _, _, _, _)

\* a variant of the try block that reports completion before validating the
\* output
TryFromCompleteEarly(i, timeout, beh) ==
    IF i > Len(TryStages) THEN <<>>
    ELSE LET stage == TryStages[i]
             e     == StageExc(stage, timeout, beh)
             pre   == IF stage = "validate_output"
                      THEN <<Call("emit_complete", None, beh.dur)>> ELSE <<>>
         IN  pre \o <<Call(stage, e, StageEnd(stage, beh))>> \o
             (IF e # None
              THEN <<Call("emit_error", e, StageEnd(stage, beh))>>
              ELSE TryFromCompleteEarly(i + 1, timeout, beh))

\* the try block from its i-th statement on: the first stage that raises
\* ends it in the except clause (emit_error, re-raise); when all have passed,
\* emit_complete
TryFrom(i, timeout, beh) ==
    IF i > Len(TryStages) THEN <<Call("emit_complete", None, beh.dur)>>
    ELSE LET stage == TryStages[i]
             e     == StageExc(stage, timeout, beh)
         IN  <<Call(stage, e, StageEnd(stage, beh))>> \o
             (IF e # None
              THEN <<Call("emit_error", e, StageEnd(stage, beh))>>
              ELSE TryFrom(i + 1, timeout, beh))

\* the calls of one invocation of Block.execute, in order
BlockCalls(timeout, beh) ==
    <<Call("emit_start", None, 0)>> \o TryFrom(1, timeout, beh)

\* the effect of the emit calls among calls[i..] on the manager
EmitCalls(calls, i, id, s, r, t) ==
    IF i > Len(calls) THEN [sm |-> s, recv |-> r]
    ELSE LET c == calls[i]
             e == IF c.op = "emit_start" THEN EmitStart(s, r, t + c.after, id)
                  ELSE IF c.op = "emit_complete"
                  THEN EmitComplete(s, r, t + c.after, id)
                  ELSE IF c.op = "emit_error"
                  THEN EmitError(s, r, t + c.after, id, c.arg)
                  ELSE [sm |-> s, recv |-> r]
         IN  EmitCalls(calls, i + 1, id, e.sm, e.recv, t)

\* Block.execute: emit_start, validate_inputs, process, the timeout check,
\* validate_output, emit_complete; on any exception emit_error and re-raise.
\* 'exc' is the class of the exception that leaves the call (None: it returned
\* 'out'), 'returned' tells whether process itself returned a value.
BlockExecute(id, timeout, beh, s, r, t) ==
    LET calls == BlockCalls(timeout, beh)
        last  == calls[Len(calls)]
        exc   == IF last.op = "emit_error" THEN last.arg ELSE None
        e     == EmitCalls(calls, 1, id, s, r, t)
    IN  [sm |-> e.sm, recv |-> e.recv, t |-> t + last.after, exc |-> exc,
         out |-> IF exc = None THEN beh.out ELSE NoValue,
         returned |-> \E i \in 1..Len(calls) :
                         calls[i].op = "process" /\ calls[i].arg = None,
         calls |-> calls]

----------------------------------------------------------------------------
(* Pipeline.execute and its helpers (core/pipeline.py) *)

\* an exception: the chain of classes from the one raised to its causes, and
\* the details of the runtime-limit error (-1 when absent)
Exc(chain, elapsed, max_runtime) ==
    [chain |-> chain, elapsed |-> elapsed, max_runtime |-> max_runtime]

NoExc == Exc(<<>>, -1, -1)

\* the except clause of _execute_block: anything that is not a
\* BlockRuntimeError is re-raised as a BlockRuntimeError from it
WrapBlockError(etype) ==
    IF etype = "BlockRuntimeError" THEN <<etype>>
    ELSE <<"BlockRuntimeError", etype>>

\* a variant of the except clause of execute that re-raises what it caught
WrapPipelineErrorNever(e) == e

\* the except clause of execute: anything that is not a PipelineRuntimeError
\* is re-raised as a PipelineRuntimeError from it
WrapPipelineError(e) ==
    IF e.chain[1] = "PipelineRuntimeError" THEN e
    ELSE [e EXCEPT !.chain = <<"PipelineRuntimeError">> \o @]

\* the timeout_seconds of a block's config
TimeoutOf(d, id) ==
    LET i == CHOOSE j \in 1..Len(d.blocks) : d.blocks[j].id = id
    IN  d.blocks[i].timeout

\* a variant of the scan that is content with one executed dependency
ExecutableAny(deps, executed, pending) ==
    {b \in pending :
        \/ b \notin DOMAIN deps
        \/ \E i \in 1..Len(deps[b]) : deps[b][i] \in executed}

\* Pipeline._find_next_executable_block: the blocks the scan over the pending
\* set can return (the set's iteration order is not fixed)
Executable(deps, executed, pending) ==
    {b \in pending :
        \/ b \notin DOMAIN deps
        \/ \A i \in 1..Len(deps[b]) : deps[b][i] \in executed}

\* a variant of the dependency loop in which a key keeps its first value
RECURSIVE MergeDepsKeep(_, _, _, _)
MergeDepsKeep(ds, i, acc, bv) ==
    IF i > Len(ds) THEN acc
    ELSE LET dep_output == Get(bv, ds[i], NoValue)
         IN  MergeDepsKeep(ds, i + 1,
                           IF dep_output.kind = "dict" THEN Update(dep_output.m, acc)
                           ELSE IF ds[i] \in DOMAIN acc THEN acc
                           ELSE SetKey(acc, ds[i], dep_output.v),
                           bv)

\* the dependency loop of _get_block_input from position i on
RECURSIVE MergeDeps(_, _, _, _)
MergeDeps(ds, i, acc, bv) ==
    IF i > Len(ds) THEN acc
    ELSE LET dep_output == Get(bv, ds[i], NoValue)
         IN  MergeDeps(ds, i + 1,
                       IF dep_output.kind = "dict" THEN Update(acc, dep_output.m)
                       ELSE SetKey(acc, ds[i], dep_output.v),
                       bv)

\* a variant of the global fill of _get_block_input that lets a global value
\* overwrite what a predecessor supplied
FillGlobalsOver(input, gl) == Update(input, gl)

\* the global loop of _get_block_input: only keys not yet present are added
FillGlobals(input, gl) == Update(gl, input)

\* Pipeline._get_block_input
GetBlockInput(id, deps, bv, gl) ==
    FillGlobals(IF id \in DOMAIN deps THEN MergeDeps(deps[id], 1, <<>>, bv) ELSE <<>>,
                gl)

\* the value of a successful execute
Result(kind, value, map) == [kind |-> kind, value |-> value, map |-> map]

NoResult == Result("none", NoValue, <<>>)

\* lines 310-315 of execute: the declared output block's cached value when it
\* is truthy and was executed, else a copy of all block values
DetermineOutput(output, executed, bv) ==
    IF Truthy(output) /\ output \in executed
    THEN Result("value", Get(bv, output, NoValue), <<>>)
    ELSE Result("map", NoValue, bv)

----------------------------------------------------------------------------
(* Inputs of the runs *)

\* block ids of the two-block pipelines, in the order of their block specs;
\* "x" is also the key blocks emit, "" the falsy id
ExecIdSeq == <<"", "x">>

ExecIds == {ExecIdSeq[i] : i \in 1..Len(ExecIdSeq)}

\* the subscriber registered on executed pipelines
ExecSubs == {"s1"}

\* duration of a slow process call, in milliseconds
SlowMs == 2000

\* time that passes between two runs when the caller waits, in milliseconds
IdleMs == 1000

\* number of slow process calls the clock leaves room for
MaxSlow == 2

\* the clock is not advanced past this time, in milliseconds
MaxTime == MaxSlow * SlowMs

\* number of execute calls on one Pipeline
MaxRuns == 2

\* the subsequence of ExecIdSeq with the ids of S
RECURSIVE IdsInOrder(_, _)
IdsInOrder(S, i) ==
    IF i > Len(ExecIdSeq) THEN <<>>
    ELSE (IF ExecIdSeq[i] \in S THEN <<ExecIdSeq[i]>> ELSE <<>>) \o IdsInOrder(S, i + 1)

BlockSpec(id, next, timeout) == [id |-> id, next |-> next, timeout |-> timeout]

Definition(blocks, output, create_fail) ==
    [shape |-> "ok", blocks |-> blocks, output |-> output, create_fail |-> create_fail,
     block_dependencies |-> <<>>]

\* the definition over the ids of S with successor lists nx and one timeout
DefOver(S, nx, timeout, output) ==
    LET ids == IdsInOrder(S, 1)
    IN  Definition([i \in 1..Len(ids) |-> BlockSpec(ids[i], nx[ids[i]], timeout)],
                   output, 0)

\* the definitions of at most two blocks that Pipeline.__init__ accepts
SmallDefs(timeouts) ==
    {d \in {DefOver(S, nx, t, o) :
                S \in (SUBSET ExecIds) \ {{}}, nx \in [ExecIds -> SUBSET ExecIds],
                t \in timeouts, o \in {None, "", "x"}} :
        Construct(d).ok}

\* the diamond a -> x, a -> c, x -> d, c -> d
DiamondDefs(timeouts) ==
    {Definition(<<BlockSpec("a", {"x", "c"}, t), BlockSpec("x", {"d"}, t),
                  BlockSpec("c", {"d"}, t), BlockSpec("d", {}, t)>>, o, 0) :
        t \in timeouts, o \in {None, "d"}}

\* What varies in a family of runs: the definitions, the values process
\* returns, the time it takes, the runtime limits (seconds), the number of
\* runs and the time up to which the caller waits between runs.
DataEnv == [name    |-> "data",
            defs    |-> SmallDefs({DefaultTimeout}) \cup DiamondDefs({DefaultTimeout}),
            outs    |-> {Raw(1)} \cup {Dict([k \in {OutKey} |-> v]) : v \in 1..MaxVal},
            durs    |-> {0},
            limits  |-> {DefaultMaxRuntime},
            runs    |-> 1,
            horizon |-> 0]

TimeEnv == [name    |-> "time",
            defs    |-> SmallDefs({0, 1}) \cup DiamondDefs({0, 1}),
            outs    |-> {Dict([k \in {OutKey} |-> 1])},
            durs    |-> {0, SlowMs},
            limits  |-> {0, 1, 3},
            runs    |-> 1,
            horizon |-> 0]

RerunEnv == [name    |-> "rerun",
             defs    |-> SmallDefs({DefaultTimeout}),
             outs    |-> {Raw(1), Dict([k \in {OutKey} |-> 1])},
             durs    |-> {0},
             limits  |-> {DefaultMaxRuntime},
             runs    |-> MaxRuns,
             horizon |-> IdleMs]

\* the pipeline of the tests: input1 -> process1 -> output1, output "output1"
ChainDef ==
    Definition(<<BlockSpec("input1", {"process1"}, DefaultTimeout),
                 BlockSpec("process1", {"output1"}, DefaultTimeout),
                 BlockSpec("output1", {}, DefaultTimeout)>>, "output1", 0)

\* the runs of the test pipeline, whose blocks compute their output from
\* their input (outs is not used)
ChainEnv == [name    |-> "chain",
             defs    |-> {ChainDef},
             outs    |-> {},
             durs    |-> {0},
             limits  |-> {DefaultMaxRuntime},
             runs    |-> MaxRuns,
             horizon |-> IdleMs]

Envs == {DataEnv, TimeEnv, RerunEnv, ChainEnv}

\* the callbacks registered on the pipelines of environment e
SubsOf(e) == IF e.name = "chain" THEN Subs ELSE ExecSubs

\* Texts are numbered: 0 is the empty string, 1..MaxVal are lower-case texts
\* and UpperOffset + v is the upper-case form of text v.
UpperOffset == 10

\* str.upper()
Upper(t) == IF t \in 1..MaxVal THEN t + UpperOffset ELSE t

\* the "type" of the blocks of the test pipeline
BlockType(id) ==
    CASE id = "input1"   -> "text_input"
      [] id = "process1" -> "processing"
      [] id = "output1"  -> "output"
      [] OTHER -> None

\* process of TextInputBlock, ProcessingBlock and OutputBlock
Process(type, inputs) ==
    CASE type = "text_input" -> Dict([k \in {"text"} |-> Get(inputs, "text", 0)])
      [] type = "processing" ->
            Dict([k \in {"processed_text"} |-> Upper(Get(inputs, "text", 0))])
      [] type = "output"     -> Raw(Get(inputs, "processed_text", 0))
      [] OTHER -> NoValue

\* how a block invocation can go
Behaviours(e) ==
    {Behaviour(None, None, o, dur) : o \in e.outs, dur \in e.durs}
    \cup {Behaviour("validate_inputs", "InputValidationError", NoValue, 0),
          Behaviour("process", "RuntimeError", NoValue, 0),
          Behaviour("process", "BlockRuntimeError", NoValue, 0),
          Behaviour("validate_output", "OutputValidationError", NoValue, 0)}

\* the argument of execute: global_parameters and the per-block inputs
RunInputs(d) ==
    {[gp |-> gp, entry |-> e] :
        gp \in {<<>>, [k \in {OutKey} |-> MaxVal]},
        e \in {<<>>, [id \in BlockIds(d) |-> [k \in {OutKey} |-> 1]]}}

\* how the invocation of block id on an input can go in environment e
BehavioursOf(e, id, inputs) ==
    IF e.name = "chain" THEN {Behaviour(None, None, Process(BlockType(id), inputs), 0)}
    ELSE Behaviours(e)

\* the arguments of execute in the tests: a "text" for the entry block, a
\* global "text", both or none
ChainInputs ==
    {[gp |-> gp, entry |-> e] :
        gp \in {<<>>} \cup {[k \in {"text"} |-> v] : v \in 1..MaxVal},
        e \in {<<>>, [id \in {"input1"} |-> [k \in {"text"} |-> 1]]}}

\* the arguments of execute in environment e
RunInputsOf(e, d) == IF e.name = "chain" THEN ChainInputs ELSE RunInputs(d)

----------------------------------------------------------------------------
(* State of a run *)

\* the locals of execute
RunState(pc, start_time, executed, pending, idx, inp, result, exc) ==
    [pc |-> pc, start_time |-> start_time, executed |-> executed,
     pending |-> pending, idx |-> idx, inp |-> inp, result |-> result, exc |-> exc]

NoInput == [gp |-> <<>>, entry |-> <<>>]

IdleRun == RunState("idle", 0, {}, {}, 0, NoInput, NoResult, NoExc)

\* one call of _execute_block as the run's record keeps it: the block, the
\* input it got, the clock and elapsed run time when it started, the class of
\* the exception Block.execute raised (None: it returned), whether process
\* returned, the value written with set_block_value (wrote = TRUE), the calls
\* Block.execute made
Step(id, inp, at, elapsed, exc, returned, wrote, out, dur, calls) ==
    [id |-> id, inp |-> inp, at |-> at, elapsed |-> elapsed, exc |-> exc,
     returned |-> returned, wrote |-> wrote, out |-> out, dur |-> dur,
     calls |-> calls]

NoHist == [steps |-> <<>>, before |-> <<>>, subs |-> <<>>]

NoEmit == [type |-> None, block |-> None, level |-> None, time |-> 0,
           accepted |-> FALSE, prior |-> <<>>, subs |-> <<>>]

NoBuilt == [ok |-> FALSE, error |-> None, msg |-> "pending",
            deps |-> <<>>, entry |-> <<>>, output |-> None]

EmptyLogs == [c \in Subs \cup MutatingSubs |-> <<>>]

Init ==
    /\ mode = "exec"
    /\ env \in Envs
    /\ pdef \in env.defs
    /\ built = Construct(pdef)
    /\ cfg \in {[max_runtime |-> l] : l \in env.limits}
    /\ globals = <<>>
    /\ blockvals = <<>>
    /\ sm = NewStreamManager(TRUE, "info", {}, 100)
    /\ recv = EmptyLogs
    /\ now = 0
    /\ run = IdleRun
    /\ hist = NoHist
    /\ nruns = 0
    /\ emits = NoEmit

----------------------------------------------------------------------------
(* Pipeline.add_subscriber / remove_subscriber, between runs *)

Running == run.pc \in {"entry", "loop"}

AddSubscriber(c) ==
    /\ mode = "exec" /\ ~Running
    /\ sm' = AddSub(sm, c)
    /\ UNCHANGED <<mode, pdef, built, cfg, globals, blockvals, recv, now, run,
                   hist, nruns, env, emits>>

RemoveSubscriber(c) ==
    /\ mode = "exec" /\ ~Running
    /\ sm' = RemoveSub(sm, c)
    /\ UNCHANGED <<mode, pdef, built, cfg, globals, blockvals, recv, now, run,
                   hist, nruns, env, emits>>

\* the caller lets time pass between two runs
Idle ==
    /\ mode = "exec" /\ ~Running
    /\ nruns > 0 /\ nruns < env.runs
    /\ now + IdleMs <= env.horizon
    /\ now' = now + IdleMs
    /\ UNCHANGED <<mode, pdef, built, cfg, globals, blockvals, sm, recv, run,
                   hist, nruns, env, emits>>

----------------------------------------------------------------------------
(* Pipeline.execute, one action per step of the run *)

\* lines 259-282: seed the globals, emit pipeline_start, start the timer
ExecuteStart(inp) ==
    /\ mode = "exec" /\ ~Running
    /\ nruns < env.runs
    /\ LET e == Emit(sm, EmptyLogs, now, "pipeline_start", "pipeline", "info", NoData)
       IN  /\ sm' = e.sm
           /\ recv' = e.recv
    /\ globals' = Update(globals, inp.gp)
    /\ run' = RunState("entry", now, {}, BlockIds(pdef), 1, inp, NoResult, NoExc)
    /\ hist' = [steps |-> <<>>, before |-> blockvals, subs |-> sm.subscribers]
    /\ nruns' = nruns + 1
    /\ UNCHANGED <<mode, pdef, built, cfg, blockvals, now, env, emits>>

\* a variant that stores whatever Block.execute left, raised or not
StoreOutputAlways(bv, id, x) == SetKey(bv, id, x.out)

\* context.set_block_value(block_id, output) in the try of _execute_block: it
\* is reached only when block.execute returned
StoreOutput(bv, id, x) == IF x.exc = None THEN SetKey(bv, id, x.out) ELSE bv

\* a variant in which the run goes on after a block raised
AfterFailureGoOn(nextpc) == nextpc

\* where execute is after _execute_block raised: the exception leaves the for
\* or while loop and, through the except clause, execute itself
AfterFailure(nextpc) == "raised"

\* _execute_block(id, input) inside the try of execute, with the except
\* clause of execute when it raises
ExecuteBlock(id, input, beh, nextpc, nextidx) ==
    LET x   == BlockExecute(id, TimeoutOf(pdef, id), beh, sm, recv, now)
        ok  == x.exc = None
        st  == Step(id, input, now, now - run.start_time, x.exc, x.returned,
                    ok, x.out, beh.dur, x.calls)
        err == EmitError(x.sm, x.recv, x.t, "pipeline", "BlockRuntimeError")
    IN  /\ now' = x.t
        /\ hist' = [hist EXCEPT !.steps = Append(@, st)]
        /\ blockvals' = StoreOutput(blockvals, id, x)
        /\ sm' = IF ok THEN x.sm ELSE err.sm
        /\ recv' = IF ok THEN x.recv ELSE err.recv
        /\ run' = IF ok
                  THEN [run EXCEPT !.executed = @ \cup {id}, !.pending = @ \ {id},
                                   !.pc = nextpc, !.idx = nextidx]
                  ELSE [run EXCEPT !.executed = @ \cup {id}, !.pending = @ \ {id},
                                   !.pc = AfterFailure(nextpc),
                                   !.exc = WrapPipelineError(
                                              Exc(WrapBlockError(x.exc), -1, -1))]
        /\ UNCHANGED <<mode, pdef, built, cfg, globals, nruns, env, emits>>

\* lines 284-287: the entry blocks, in order, each with its own input
EntryStep ==
    /\ mode = "exec" /\ run.pc = "entry"
    /\ LET id == built.entry[run.idx]
       IN  \E beh \in BehavioursOf(env, id, Get(run.inp.entry, id, <<>>)) :
              /\ now + beh.dur <= MaxTime
              /\ ExecuteBlock(id, Get(run.inp.entry, id, <<>>), beh,
                              IF run.idx = Len(built.entry) THEN "loop" ELSE "entry",
                              run.idx + 1)

\* the scan of _find_next_executable_block returned a block to run
NextBlocks == {b \in Executable(built.deps, run.executed, run.pending) : Truthy(b)}

\* a variant of the limit test that never fires
LimitExceededNever == FALSE

\* 'if max_runtime and elapsed_time > max_runtime' (max_runtime in seconds)
LimitExceeded ==
    cfg.max_runtime # 0 /\ now - run.start_time > cfg.max_runtime * 1000

\* lines 290-302: a block is ready but the run is over its limit
RuntimeLimit ==
    /\ mode = "exec" /\ run.pc = "loop"
    /\ NextBlocks # {}
    /\ LimitExceeded
    /\ LET err == EmitError(sm, recv, now, "pipeline", "PipelineRuntimeError")
       IN  /\ sm' = err.sm
           /\ recv' = err.recv
    /\ run' = [run EXCEPT !.pc = "raised",
                          !.exc = WrapPipelineError(
                                     Exc(<<"PipelineRuntimeError">>,
                                         now - run.start_time, cfg.max_runtime * 1000))]
    /\ UNCHANGED <<mode, pdef, built, cfg, globals, blockvals, now, hist, nruns,
                   env, emits>>

\* lines 290-308: one iteration of the loop that runs a block
LoopStep ==
    /\ mode = "exec" /\ run.pc = "loop"
    /\ ~LimitExceeded
    /\ \E b \in NextBlocks :
        \E beh \in BehavioursOf(env, b, GetBlockInput(b, built.deps, blockvals, globals)) :
          /\ now + beh.dur <= MaxTime
          /\ ExecuteBlock(b, GetBlockInput(b, built.deps, blockvals, globals), beh,
                          "loop", run.idx)

\* lines 290-329: the loop ends (nothing pending, or the scan returned nothing
\* truthy), the result is determined, pipeline_complete is emitted
Finish ==
    /\ mode = "exec" /\ run.pc = "loop"
    /\ LET ex == Executable(built.deps, run.executed, run.pending)
       IN  run.pending = {} \/ ex = {} \/ "" \in ex
    /\ LET e == Emit(sm, recv, now, "pipeline_complete", "pipeline", "info",
                     [NoData EXCEPT !.executed = run.executed, !.pending = run.pending])
       IN  /\ sm' = e.sm
           /\ recv' = e.recv
    /\ run' = [run EXCEPT !.pc = "returned",
                          !.result = DetermineOutput(built.output, run.executed, blockvals)]
    /\ UNCHANGED <<mode, pdef, built, cfg, globals, blockvals, now, hist, nruns,
                   env, emits>>

Next ==
    \/ \E c \in SubsOf(env) : AddSubscriber(c)
    \/ \E c \in SubsOf(env) : RemoveSubscriber(c)
    \/ Idle
    \/ \E inp \in RunInputsOf(env, pdef) : ExecuteStart(inp)
    \/ EntryStep
    \/ RuntimeLimit
    \/ LoopStep
    \/ Finish

Spec == Init /\ [][Next]_vars

----------------------------------------------------------------------------
(* Pipeline.execute_async: overlapping runs of one Pipeline.  In this mode  *)
(* 'run' maps each thread to the locals of its execute call; the Context    *)
(* (globals, blockvals) and the StreamManager (sm) are the Pipeline's.      *)

\* the threads execute_async started
Threads == {"t1", "t2"}

\* the arguments of the overlapping runs of the test pipeline
AsyncInputs ==
    {[gp |-> gp, entry |-> e] :
        gp \in {<<>>} \cup {[k \in {"text"} |-> v] : v \in 1..MaxVal},
        e \in {<<>>} \cup {[id \in {"input1"} |-> [k \in {"text"} |-> v]] : v \in 1..MaxVal}}

InitAsync ==
    /\ mode = "async"
    /\ env = ChainEnv
    /\ pdef = ChainDef
    /\ built = Construct(pdef)
    /\ cfg = [max_runtime |-> DefaultMaxRuntime]
    /\ globals = <<>>
    /\ blockvals = <<>>
    /\ sm = AddSub(NewStreamManager(TRUE, "info", {}, 100), "s1")
    /\ recv = EmptyLogs
    /\ now = 0
    /\ run = [t \in Threads |-> IdleRun]
    /\ hist = NoHist
    /\ nruns = 0
    /\ emits = NoEmit

\* thread t enters execute: lines 259-282
AsyncStart(t, inp) ==
    /\ mode = "async" /\ run[t].pc = "idle"
    /\ LET e == Emit(sm, recv, now, "pipeline_start", "pipeline", "info", NoData)
       IN  /\ sm' = e.sm
           /\ recv' = e.recv
    /\ globals' = Update(globals, inp.gp)
    /\ run' = [run EXCEPT ![t] = RunState("entry", now, {}, BlockIds(pdef), 1, inp,
                                          NoResult, NoExc)]
    /\ nruns' = nruns + 1
    /\ UNCHANGED <<mode, pdef, built, cfg, blockvals, now, hist, env, emits>>

\* _execute_block(id, input) in thread t (the blocks of the test pipeline do
\* not raise)
AsyncExecuteBlock(t, id, input, nextpc, nextidx) ==
    LET beh == Behaviour(None, None, Process(BlockType(id), input), 0)
        x   == BlockExecute(id, TimeoutOf(pdef, id), beh, sm, recv, now)
        st  == Step(id, input, now, now - run[t].start_time, x.exc, x.returned,
                    x.exc = None, x.out, beh.dur, x.calls)
    IN  /\ now' = x.t
        /\ hist' = [hist EXCEPT !.steps = Append(@, [thread |-> t, step |-> st])]
        /\ blockvals' = StoreOutput(blockvals, id, x)
        /\ sm' = x.sm
        /\ recv' = x.recv
        /\ run' = [run EXCEPT ![t].executed = @ \cup {id}, ![t].pending = @ \ {id},
                              ![t].pc = nextpc, ![t].idx = nextidx]
        /\ UNCHANGED <<mode, pdef, built, cfg, globals, nruns, env, emits>>

\* lines 284-287 in thread t
AsyncEntryStep(t) ==
    /\ mode = "async" /\ run[t].pc = "entry"
    /\ LET id == built.entry[run[t].idx]
       IN  AsyncExecuteBlock(t, id, Get(run[t].inp.entry, id, <<>>),
                             IF run[t].idx = Len(built.entry) THEN "loop" ELSE "entry",
                             run[t].idx + 1)

\* lines 290-308 in thread t (the runtime limit is not reached)
AsyncLoopStep(t) ==
    /\ mode = "async" /\ run[t].pc = "loop"
    /\ now - run[t].start_time <= cfg.max_runtime * 1000
    /\ \E b \in {c \in Executable(built.deps, run[t].executed, run[t].pending) : Truthy(c)} :
          AsyncExecuteBlock(t, b, GetBlockInput(b, built.deps, blockvals, globals),
                            "loop", run[t].idx)

\* lines 290-329 in thread t
AsyncFinish(t) ==
    /\ mode = "async" /\ run[t].pc = "loop"
    /\ LET ex == Executable(built.deps, run[t].executed, run[t].pending)
       IN  run[t].pending = {} \/ ex = {} \/ "" \in ex
    /\ LET e == Emit(sm, recv, now, "pipeline_complete", "pipeline", "info",
                     [NoData EXCEPT !.executed = run[t].executed,
                                    !.pending = run[t].pending])
       IN  /\ sm' = e.sm
           /\ recv' = e.recv
    /\ run' = [run EXCEPT ![t].pc = "returned",
                          ![t].result = DetermineOutput(built.output, run[t].executed,
                                                        blockvals)]
    /\ UNCHANGED <<mode, pdef, built, cfg, globals, blockvals, now, hist, nruns,
                   env, emits>>

NextAsync ==
    \/ \E t \in Threads, inp \in AsyncInputs : AsyncStart(t, inp)
    \/ \E t \in Threads : AsyncEntryStep(t)
    \/ \E t \in Threads : AsyncLoopStep(t)
    \/ \E t \in Threads : AsyncFinish(t)

SpecAsync == InitAsync /\ [][NextAsync]_vars

----------------------------------------------------------------------------
(* Pipeline.__init__ on bounded definitions *)

\* the malformed shapes _validate_pipeline_def rejects before it looks at ids
BadShapes == {"not_a_dict", "no_blocks", "blocks_not_a_list"}

\* the block lists of the bounded definitions
BuildBlockSeqs ==
    UNION {[1..n -> {BlockSpec(id, nx, DefaultTimeout) :
                        id \in BuildIds, nx \in SUBSET BuildIds}] :
           n \in 0..MaxBlocks}

BuildOutputs == {None, "", "a"}

BadDefs == {[Definition(<<>>, None, 0) EXCEPT !.shape = sh] : sh \in BadShapes}

\* definitions of two blocks with empty 'next' lists that carry a top-level
\* "block_dependencies" field
DeclaredDepsDefs ==
    {[Definition(<<BlockSpec("a", {}, DefaultTimeout), BlockSpec("b", {}, DefaultTimeout)>>,
                 None, 0) EXCEPT !.block_dependencies = dd] :
        dd \in {[id \in {"a"} |-> <<"b">>],
                [id \in {"a", "b"} |-> IF id = "a" THEN <<"b">> ELSE <<"a">>]}}

InitBuild ==
    /\ mode = "build"
    /\ env = DataEnv
    /\ \/ \E bs \in BuildBlockSeqs, o \in BuildOutputs, cf \in {0, 1} :
             pdef = Definition(bs, o, cf)
       \/ pdef \in BadDefs
       \/ pdef \in DeclaredDepsDefs
    /\ built = NoBuilt
    /\ cfg = [max_runtime |-> DefaultMaxRuntime]
    /\ globals = <<>>
    /\ blockvals = <<>>
    /\ sm = NewStreamManager(TRUE, "info", {}, 100)
    /\ recv = EmptyLogs
    /\ now = 0
    /\ run = IdleRun
    /\ hist = NoHist
    /\ nruns = 0
    /\ emits = NoEmit

\* Pipeline(pipeline_def)
Build ==
    /\ mode = "build" /\ built.msg = "pending"
    /\ built' = Construct(pdef)
    /\ UNCHANGED <<mode, pdef, cfg, globals, blockvals, sm, recv, now, run, hist,
                   nruns, env, emits>>

NextBuild == Build

SpecBuild == InitBuild /\ [][NextBuild]_vars

----------------------------------------------------------------------------
(* A StreamManager on its own *)

\* time between two calls on the manager, in milliseconds
TickMs == 50

\* number of clock ticks
MaxTicks == 2

\* the (event type, block id) pairs emitted
StreamPairs == {<<"block_start", "text_1">>, <<"pipeline_start", "pipeline">>,
                <<"block_log", "text_1">>}

\* pairs of which two are formatted to the same throttle key "llm:a:b"
KeyPairs == {<<"llm", "a:b">>, <<"llm:a", "b">>, <<"llm", "b">>}

\* the environment of the calls that use KeyPairs
KeyEnv == [DataEnv EXCEPT !.name = "keys"]

\* the (event type, block id) pairs emitted in environment e
PairsOf(e) == IF e.name = "keys" THEN KeyPairs ELSE StreamPairs

\* the environment of the calls in which callbacks change the subscriber list
FanEnv == [DataEnv EXCEPT !.name = "fan"]

\* the callbacks a caller registers in environment e
CallbacksOf(e) == IF e.name = "fan" THEN MutatingSubs \cup {"s1"} ELSE Subs

\* the level names callers pass; "trace" is not in the table
StreamLevels == {"debug", "info", "warning", "error", "trace"}

\* the configurations of the manager; "verbose" is not in the table
StreamConfigs ==
    {NewStreamManager(TRUE, lv, inc, th) :
        lv \in {"debug", "info", "warning", "error", "verbose"},
        inc \in {{}, {"text"}}, th \in {0, 100}}
    \cup {NewStreamManager(FALSE, "info", {}, 100)}

InitStream ==
    /\ mode = "stream"
    /\ env = DataEnv
    /\ pdef = Definition(<<>>, None, 0)
    /\ built = NoBuilt
    /\ cfg = [max_runtime |-> DefaultMaxRuntime]
    /\ globals = <<>>
    /\ blockvals = <<>>
    /\ sm \in StreamConfigs
    /\ recv = EmptyLogs
    /\ now = 0
    /\ run = IdleRun
    /\ hist = NoHist
    /\ nruns = 0
    /\ emits = NoEmit

\* the time of the last delivered event per (type, block) pair since the
\* throttle state was last reset, as an observer of the manager records it
LastDelivered == hist.before

\* stream_manager.emit(event_type, block_id, data, level)
SmEmit(event_type, block_id, level) ==
    /\ mode = "stream"
    /\ LET e  == Emit(sm, EmptyLogs, now, event_type, block_id, level, NoData)
           ok == Accepts(sm, event_type, block_id, level, now)
       IN  /\ sm' = e.sm
           /\ recv' = e.recv
           /\ emits' = [type |-> event_type, block |-> block_id, level |-> level,
                        time |-> now, accepted |-> ok, prior |-> LastDelivered,
                        subs |-> sm.subscribers]
           /\ hist' = IF ok
                      THEN [hist EXCEPT !.before = SetKey(@, <<event_type, block_id>>, now)]
                      ELSE hist
    /\ UNCHANGED <<mode, pdef, built, cfg, globals, blockvals, now, run, nruns, env>>

\* stream_manager.add_subscriber(c)
SmAddSubscriber(c) ==
    /\ mode = "stream"
    /\ sm' = AddSub(sm, c)
    /\ recv' = EmptyLogs /\ emits' = NoEmit
    /\ UNCHANGED <<mode, pdef, built, cfg, globals, blockvals, now, run,
                   hist, nruns, env>>

\* stream_manager.remove_subscriber(c)
SmRemoveSubscriber(c) ==
    /\ mode = "stream"
    /\ sm' = RemoveSub(sm, c)
    /\ recv' = EmptyLogs /\ emits' = NoEmit
    /\ UNCHANGED <<mode, pdef, built, cfg, globals, blockvals, now, run,
                   hist, nruns, env>>

\* stream_manager.clear()
SmClear ==
    /\ mode = "stream"
    /\ sm' = ClearSm(sm)
    /\ hist' = [hist EXCEPT !.before = <<>>]
    /\ recv' = EmptyLogs /\ emits' = NoEmit
    /\ UNCHANGED <<mode, pdef, built, cfg, globals, blockvals, now, run,
                   nruns, env>>

\* time passes between two calls
SmTick ==
    /\ mode = "stream"
    /\ now + TickMs <= MaxTicks * TickMs
    /\ now' = now + TickMs
    /\ recv' = EmptyLogs /\ emits' = NoEmit
    /\ UNCHANGED <<mode, pdef, built, cfg, globals, blockvals, sm, run,
                   hist, nruns, env>>

NextStream ==
    \/ \E p \in PairsOf(env), l \in StreamLevels : SmEmit(p[1], p[2], l)
    \/ \E c \in CallbacksOf(env) : SmAddSubscriber(c)
    \/ \E c \in CallbacksOf(env) : SmRemoveSubscriber(c)
    \/ SmClear
    \/ SmTick

SpecStream == InitStream /\ [][NextStream]_vars

\* the configurations of the manager used with KeyPairs
KeyConfigs ==
    {NewStreamManager(TRUE, "info", {}, 100),
     NewStreamManager(TRUE, "warning", {}, 100),
     NewStreamManager(TRUE, "info", {"llm"}, 100),
     NewStreamManager(FALSE, "info", {}, 100)}

InitKeys ==
    /\ mode = "stream"
    /\ env = KeyEnv
    /\ pdef = Definition(<<>>, None, 0)
    /\ built = NoBuilt
    /\ cfg = [max_runtime |-> DefaultMaxRuntime]
    /\ globals = <<>>
    /\ blockvals = <<>>
    /\ sm \in KeyConfigs
    /\ recv = EmptyLogs
    /\ now = 0
    /\ run = IdleRun
    /\ hist = NoHist
    /\ nruns = 0
    /\ emits = NoEmit

SpecKeys == InitKeys /\ [][NextStream]_vars

InitFan ==
    /\ mode = "stream"
    /\ env = FanEnv
    /\ pdef = Definition(<<>>, None, 0)
    /\ built = NoBuilt
    /\ cfg = [max_runtime |-> DefaultMaxRuntime]
    /\ globals = <<>>
    /\ blockvals = <<>>
    /\ sm = NewStreamManager(TRUE, "info", {}, 100)
    /\ recv = EmptyLogs
    /\ now = 0
    /\ run = IdleRun
    /\ hist = NoHist
    /\ nruns = 0
    /\ emits = NoEmit

SpecFan == InitFan /\ [][NextStream]_vars

\* ---------------------------------------------------------------------
\* Context and Context.clone, with dictionaries as objects on a heap so
\* that sharing a dictionary and copying it are different things
\* ---------------------------------------------------------------------

Refs == 1..6

\* no dictionary handed in
NoRef == 0

CtxNames == {"original", "clone"}

CtxKeys == {"key", "another_key"}

CtxBlocks == {"block1"}

\* the initial global values a Context is constructed with
CtxInitGlobals ==
    {<<>>} \cup {[k \in {"key"} |-> v] : v \in 1..MaxVal}

\* the name 'clone' before it is bound to a Context
NoContext ==
    [pipeline_id |-> None, config |-> None, stream_manager |-> None,
     global_values |-> NoRef, block_values |-> NoRef]

\* a reference not yet used by the heap
FreshRef(heap) == CHOOSE r \in Refs : r \notin DOMAIN heap

\* Context.__init__: global_values or {} keeps the dictionary handed in
\* unless it is empty; the block-output map is a new empty dictionary
NewContext(heap, pipeline_id, config, stream_manager, gref) ==
    LET h1   == IF gref # NoRef /\ heap[gref] # <<>>
                THEN heap
                ELSE SetKey(heap, FreshRef(heap), <<>>)
        g    == IF gref # NoRef /\ heap[gref] # <<>> THEN gref ELSE FreshRef(heap)
        b    == FreshRef(h1)
    IN  [heap |-> SetKey(h1, b, <<>>),
         ctx  |-> [pipeline_id |-> pipeline_id, config |-> config,
                   stream_manager |-> stream_manager,
                   global_values |-> g, block_values |-> b]]

\* self._global_values.copy(): a new dictionary with the same entries
DictCopyShared(heap, ref) == [heap |-> heap, ref |-> ref]

DictCopy(heap, ref) ==
    LET r == FreshRef(heap)
    IN  [heap |-> SetKey(heap, r, heap[ref]), ref |-> r]

\* Context.clone
Clone(heap, c) ==
    LET cp == DictCopy(heap, c.global_values)
    IN  NewContext(cp.heap, c.pipeline_id, c.config, c.stream_manager, cp.ref)

\* get_all_global_values / get_all_block_values of a context
GlobalsOf(heap, c) == heap[c.global_values]

BlockValuesOf(heap, c) == heap[c.block_values]

InitClone ==
    /\ mode = "clone"
    /\ env = DataEnv
    /\ pdef = Definition(<<>>, None, 0)
    /\ built = NoBuilt
    /\ cfg = [max_runtime |-> DefaultMaxRuntime]
    /\ \E g \in CtxInitGlobals :
          LET n == NewContext(SetKey(<<>>, 1, g), "test-pipeline", "config", "sm", 1)
          IN  /\ globals = n.heap
              /\ run = [original |-> n.ctx, clone |-> NoContext]
    /\ blockvals = <<>>
    /\ sm = NewStreamManager(TRUE, "info", {}, 100)
    /\ recv = EmptyLogs
    /\ now = 0
    /\ hist = NoHist
    /\ nruns = 0
    /\ emits = NoEmit

\* context.set_global_value(key, value)
CtxSetGlobal(c, k, v) ==
    /\ mode = "clone"
    /\ run[c] # NoContext
    /\ globals' = [globals EXCEPT ![run[c].global_values] = SetKey(@, k, v)]
    /\ UNCHANGED <<mode, pdef, built, cfg, blockvals, sm, recv, now, run,
                   hist, nruns, env, emits>>

\* context.set_block_value(block_id, value)
CtxSetBlock(c, b, v) ==
    /\ mode = "clone"
    /\ run[c] # NoContext
    /\ globals' = [globals EXCEPT ![run[c].block_values] = SetKey(@, b, v)]
    /\ UNCHANGED <<mode, pdef, built, cfg, blockvals, sm, recv, now, run,
                   hist, nruns, env, emits>>

\* clone = original.clone()
CtxClone ==
    /\ mode = "clone"
    /\ run.clone = NoContext
    /\ LET n == Clone(globals, run.original)
       IN  /\ globals' = n.heap
           /\ run' = [run EXCEPT !.clone = n.ctx]
    /\ hist' = [hist EXCEPT !.before = GlobalsOf(globals, run.original)]
    /\ nruns' = 1
    /\ UNCHANGED <<mode, pdef, built, cfg, blockvals, sm, recv, now, env, emits>>

NextClone ==
    \/ \E c \in CtxNames, k \in CtxKeys, v \in 1..MaxVal : CtxSetGlobal(c, k, v)
    \/ \E c \in CtxNames, b \in CtxBlocks, v \in 1..MaxVal : CtxSetBlock(c, b, v)
    \/ CtxClone

SpecClone == InitClone /\ [][NextClone]_vars

----------------------------------------------------------------------------
(* Properties of Pipeline construction *)

\* the successor edges of a definition
Edges(d) ==
    UNION {{<<d.blocks[i].id, n>> : n \in d.blocks[i].next} : i \in 1..Len(d.blocks)}

Compose(P, E) == {<<q[1][1], q[2][2]>> : q \in {pe \in P \X E : pe[1][2] = pe[2][1]}}

\* pairs joined by a path of 1..k successor edges
RECURSIVE PathsUpTo(_, _)
PathsUpTo(d, k) ==
    IF k <= 1 THEN Edges(d)
    ELSE LET P == PathsUpTo(d, k - 1) IN P \cup Compose(P, Edges(d))

HasCycle(d) == \E id \in BlockIds(d) : <<id, id>> \in PathsUpTo(d, Len(d.blocks))

UniqueIds(d) == \A i, j \in 1..Len(d.blocks) : d.blocks[i].id = d.blocks[j].id => i = j

RefsResolve(d) == \A i \in 1..Len(d.blocks) : d.blocks[i].next \subseteq BlockIds(d)

Constructed == mode = "build" /\ built.msg # "pending"

\* C1: for a definition with unique block ids and resolvable successor
\* references, construction fails with the circular-dependency error exactly
\* when the successor graph has a directed cycle (self-loops included);
\* acyclic graphs, also those with a block on several paths, pass the check.
C1_CycleCheckExact ==
    (Constructed /\ pdef.shape = "ok" /\ UniqueIds(pdef) /\ RefsResolve(pdef))
        => /\ (built.msg = "circular") <=> HasCycle(pdef)
           /\ built.msg = "circular" => built.error = "PipelineDefinitionError"

\* a block reachable along two paths (u -> v -> w and u -> w) in a
\* definition that construction accepted
C1_Witness ==
    /\ Constructed /\ built.ok
    /\ \E u, v, w \in BlockIds(pdef) :
          /\ u # v /\ v # w /\ u # w
          /\ {<<u, v>>, <<v, w>>, <<u, w>>} \subseteq Edges(pdef)

\* C2: a definition naming an absent block id, in a 'next' list or as its
\* 'output', fails construction with a PipelineDefinitionError.
C2_AbsentIdRejected ==
    (Constructed /\ (~RefsResolve(pdef)
                     \/ (pdef.output # None /\ pdef.output \notin BlockIds(pdef))))
        => (~built.ok /\ built.error = "PipelineDefinitionError")

----------------------------------------------------------------------------
(* Scheduling within one run *)

\* the ids of the blocks executed before step j of the current run
RanBefore(j) == {hist.steps[i].id : i \in 1..(j - 1)}

\* the positions of the current run's steps that executed block id
StepsOf(id) == {i \in 1..Len(hist.steps) : hist.steps[i].id = id}

IsDiamond(d) == d \in DiamondDefs({0, 1, DefaultTimeout})

\* C3: in one run every block is executed at most once and its output is
\* written at most once, a block with predecessors is executed only after all
\* of its predecessors, and in the diamond a run that returns has executed the
\* join block "d" exactly once, after both of its predecessors.
C3_OnceAfterPredecessors ==
    mode = "exec" =>
        /\ \A id \in BlockIds(pdef) :
              /\ Cardinality(StepsOf(id)) <= 1
              /\ Cardinality({i \in StepsOf(id) : hist.steps[i].wrote}) <= 1
        /\ \A j \in 1..Len(hist.steps) :
              LET id == hist.steps[j].id
              IN  id \in DOMAIN built.deps =>
                     \A k \in 1..Len(built.deps[id]) : built.deps[id][k] \in RanBefore(j)
        /\ (IsDiamond(pdef) /\ run.pc = "returned") =>
              /\ Cardinality(StepsOf("d")) = 1
              /\ \A j \in StepsOf("d") : {"x", "c"} \subseteq RanBefore(j)

\* a diamond run that returned after running "c" before "x" and then "d"
C3_Witness ==
    /\ mode = "exec" /\ IsDiamond(pdef) /\ run.pc = "returned"
    /\ Len(hist.steps) = 4
    /\ hist.steps[2].id = "c" /\ hist.steps[3].id = "x" /\ hist.steps[4].id = "d"
    /\ hist.steps[4].wrote

----------------------------------------------------------------------------
(* Inputs of non-entry blocks *)

\* the value the current run's execution of block id produced
OutOf(id) == hist.steps[CHOOSE i \in StepsOf(id) : TRUE].out

\* the keys a block input can have
InputKeys ==
    {OutKey, "", "a", "c", "d", "text", "processed_text", "input1", "process1", "output1"}

\* whether output v of predecessor p supplies key k, and the value it supplies
Supplies(v, p, k) == IF v.kind = "dict" THEN k \in DOMAIN v.m ELSE k = p

Supplied(v, k) == IF v.kind = "dict" THEN v.m[k] ELSE v.v

\* the steps of the current run that executed a block with predecessors
NonEntrySteps == {j \in 1..Len(hist.steps) : hist.steps[j].id \in DOMAIN built.deps}

\* C4 (as stated): the input of a non-entry block has every key of every
\* predecessor mapping with exactly that predecessor's value, and every
\* non-mapping predecessor output under the predecessor's id.
C4_EveryPredecessorValueKept ==
    mode = "exec" =>
        \A j \in NonEntrySteps :
            LET ds == built.deps[hist.steps[j].id]
            IN  \A i \in 1..Len(ds), k \in InputKeys :
                    Supplies(OutOf(ds[i]), ds[i], k) =>
                        /\ k \in DOMAIN hist.steps[j].inp
                        /\ hist.steps[j].inp[k] = Supplied(OutOf(ds[i]), k)

\* C4 (amended): every key supplied by a predecessor is in the input, with the
\* value of the last predecessor in dependency order that supplies it; with a
\* single supplier that is exactly the predecessor's value.
C4_LastPredecessorWins ==
    mode = "exec" =>
        \A j \in NonEntrySteps :
            LET ds == built.deps[hist.steps[j].id]
            IN  \A k \in InputKeys :
                    LET sup == {i \in 1..Len(ds) : Supplies(OutOf(ds[i]), ds[i], k)}
                    IN  sup # {} =>
                           LET l == CHOOSE i \in sup : \A h \in sup : h <= i
                           IN  /\ k \in DOMAIN hist.steps[j].inp
                               /\ hist.steps[j].inp[k] = Supplied(OutOf(ds[l]), k)

\* the join of the diamond got key "x" from both predecessors with different
\* values, and its input holds the value of "c", the later one
C4_Witness ==
    /\ mode = "exec" /\ IsDiamond(pdef)
    /\ \E j \in StepsOf("d") :
          /\ OutOf("x") = Dict([k \in {OutKey} |-> 1])
          /\ OutOf("c") = Dict([k \in {OutKey} |-> 2])
          /\ hist.steps[j].inp[OutKey] = 2

----------------------------------------------------------------------------
(* Timeouts and the runtime limit *)

\* the steps of the current run whose process call returned after more than
\* the block's configured timeout_seconds
OverTimeSteps ==
    {j \in 1..Len(hist.steps) :
        /\ hist.steps[j].returned
        /\ hist.steps[j].dur > TimeoutOf(pdef, hist.steps[j].id) * 1000}

\* the exceptions of execute that report a timeout: the timeout error itself,
\* or the pipeline-level error raised from it
TimeoutReports ==
    {<<"BlockTimeoutError">>, <<"PipelineRuntimeError", "BlockTimeoutError">>}

\* C5: a process call that takes longer than the block's timeout_seconds makes
\* Block.execute raise the timeout error after process returned, the value is
\* not stored, and execute fails reporting a timeout error.
C5_TimeoutFailsRun ==
    mode = "exec" =>
        \A j \in OverTimeSteps :
            /\ hist.steps[j].exc = "BlockTimeoutError"
            /\ ~hist.steps[j].wrote
            /\ run.pc = "raised"
            /\ run.exc.chain \in TimeoutReports

\* the runtime limit in milliseconds
LimitMs == cfg.max_runtime * 1000

\* execute raised the runtime-limit error
RaisedLimit ==
    run.pc = "raised" /\ run.exc.chain = <<"PipelineRuntimeError">> /\ run.exc.elapsed # -1

\* C6: no block is started at a boundary between two steps at which the time
\* elapsed since the run started exceeds the maximum runtime, and the
\* runtime-limit error carries elapsed_time >= max_runtime.
C6_LimitAtEveryBoundary ==
    mode = "exec" =>
        /\ \A j \in 2..Len(hist.steps) : hist.steps[j].elapsed <= LimitMs
        /\ RaisedLimit => (run.exc.max_runtime = LimitMs /\ run.exc.elapsed >= LimitMs)

\* the steps of the current run whose process call took longer than the
\* maximum pipeline runtime
OverLimitSteps ==
    {j \in 1..Len(hist.steps) : hist.steps[j].returned /\ hist.steps[j].dur > LimitMs}

\* C7: a run in which a block's processing took longer than the maximum
\* pipeline runtime never returns a result, wherever the slow block sits.
C7_SlowBlockNeverReturns ==
    (mode = "exec" /\ OverLimitSteps # {}) => run.pc # "returned"

----------------------------------------------------------------------------
(* StreamManager.emit: throttling and the level filter *)

\* an emit call was the last call on the manager
Emitted == mode = "stream" /\ emits.type # None

\* the last emit call gets past the filters that do not depend on time
PassesFilters ==
    sm.enabled /\ ~LevelDropped(sm, emits.level) /\ ~TypeDropped(sm, emits.block)

\* the last emit call came less than the throttle interval after the last
\* delivered event of its (type, block) pair
WithinInterval ==
    LET pair == <<emits.type, emits.block>>
    IN  /\ pair \in DOMAIN emits.prior
        /\ emits.time - emits.prior[pair] < sm.throttle_ms

\* the subscribers registered when the last emit call was made
Registered == {emits.subs[i] : i \in 1..Len(emits.subs)}

\* what the subscribers got from the last emit call
DeliveredToAll ==
    \A c \in Subs : Len(recv[c]) = (IF c \in Registered THEN 1 ELSE 0)

DeliveredToNone == \A c \in Subs : recv[c] = <<>>

\* C8: an emission made less than the throttle interval after the last
\* delivered event of the same (type, block) pair is not delivered, so two
\* emissions within the interval deliver one event; an emission made once the
\* interval has elapsed, or after the throttle state was reset, is delivered
\* once to every subscriber.
C8_ThrottlePerPair ==
    (Emitted /\ PassesFilters) =>
        /\ WithinInterval => (~emits.accepted /\ DeliveredToNone)
        /\ ~WithinInterval => (emits.accepted /\ DeliveredToAll)

\* a second emission of a pair within the interval, dropped with a subscriber
\* registered
C8_Witness ==
    /\ Emitted /\ PassesFilters /\ WithinInterval
    /\ Registered # {}
    /\ ~emits.accepted

\* the order of the four levels
LevelOrder == <<"debug", "info", "warning", "error">>

LevelNames == {LevelOrder[i] : i \in 1..Len(LevelOrder)}

Below(l, m) ==
    \E i, j \in 1..Len(LevelOrder) : LevelOrder[i] = l /\ LevelOrder[j] = m /\ i < j

\* C9: an event is delivered only if its level is not below the minimum level
\* in the order debug < info < warning < error; with minimum level "warning"
\* debug and info events are never delivered, and warning and error events
\* are delivered whenever the other filters let them through.
C9_LevelFilter ==
    (Emitted /\ emits.level \in LevelNames /\ sm.log_level \in LevelNames) =>
        /\ emits.accepted => ~Below(emits.level, sm.log_level)
        /\ Below(emits.level, sm.log_level) => DeliveredToNone
        /\ sm.log_level = "warning" =>
              /\ emits.level \in {"debug", "info"} => (~emits.accepted /\ DeliveredToNone)
              /\ (emits.level \in {"warning", "error"} /\ sm.enabled
                    /\ ~TypeDropped(sm, emits.block) /\ ~WithinInterval)
                    => (emits.accepted /\ DeliveredToAll)

\* a warning event delivered to a subscriber under minimum level "warning"
C9_Witness ==
    /\ Emitted /\ sm.log_level = "warning" /\ emits.level = "warning"
    /\ emits.accepted
    /\ \E c \in Registered : Len(recv[c]) = 1 /\ recv[c][1].level = "warning"

----------------------------------------------------------------------------
(* The result of execute *)

\* C10: a successful execute returns the cached output of the declared output
\* block when one is declared and was executed; with no declared output it
\* returns the full block-output map, with exactly one entry per block
\* executed in that run.
C10_ResultOfExecute ==
    (mode = "exec" /\ run.pc = "returned") =>
        /\ (pdef.output # None /\ pdef.output \in run.executed) =>
              /\ run.result.kind = "value"
              /\ run.result.value = OutOf(pdef.output)
        /\ pdef.output = None =>
              /\ run.result.kind = "map"
              /\ DOMAIN run.result.map = run.executed
              /\ \A id \in run.executed : run.result.map[id] = OutOf(id)

----------------------------------------------------------------------------
(* Failure of a block *)

\* the steps of the current run in which the block's execution failed
FailedSteps == {j \in 1..Len(hist.steps) : hist.steps[j].exc # None}

\* C11: the first block failure aborts the run: a failed step is the last
\* step of its run (no block, entry block or other, is executed after it, and
\* the failed block is not executed again), and execute raises.
C11_FirstFailureAborts ==
    mode = "exec" =>
        \A j \in FailedSteps :
            /\ j = Len(hist.steps)
            /\ Cardinality(StepsOf(hist.steps[j].id)) = 1
            /\ run.pc = "raised"
            /\ run.exc.chain # <<>>

\* the first of two entry blocks failed and the other one was never run
C11_Witness ==
    /\ mode = "exec" /\ run.pc = "raised"
    /\ Len(built.entry) = 2
    /\ Len(hist.steps) = 1 /\ FailedSteps = {1}
    /\ built.entry[2] \in run.pending

\* the steps of the current run whose block completed
CompletedSteps == {j \in 1..Len(hist.steps) : hist.steps[j].exc = None}

\* the entry of block id in block-output map bv, as a set (empty: no entry)
EntryOf(bv, id) == IF id \in DOMAIN bv THEN {bv[id]} ELSE {}

\* C12: when a run fails, the outputs of the blocks that completed before the
\* failure are in the Context with the values they produced, the failing
\* block's entry was not written by the run (it is what it was when the run
\* started), and execute returns no result.
C12_PartialProgressKept ==
    (mode = "exec" /\ run.pc = "raised") =>
        /\ \A j \in CompletedSteps :
              EntryOf(blockvals, hist.steps[j].id) = {hist.steps[j].out}
        /\ \A j \in FailedSteps :
              /\ ~hist.steps[j].wrote
              /\ EntryOf(blockvals, hist.steps[j].id) = EntryOf(hist.before, hist.steps[j].id)
        /\ run.result = NoResult

\* a run failed in its second block: the first block's output is readable,
\* the failing block has no entry
C12_Witness ==
    /\ mode = "exec" /\ run.pc = "raised"
    /\ Len(hist.steps) = 2 /\ FailedSteps = {2}
    /\ EntryOf(blockvals, hist.steps[1].id) = {hist.steps[1].out}
    /\ hist.steps[1].out # NoValue
    /\ hist.steps[2].id \notin DOMAIN blockvals

----------------------------------------------------------------------------
(* Error events of a failing run *)

\* the subscribers registered during the current run
RunSubscribers == {hist.subs[i] : i \in 1..Len(hist.subs)}

\* subscriber c was delivered an error-level event in the current run
GotErrorEvent(c) == \E i \in 1..Len(recv[c]) : recv[c][i].level = "error"

\* C13: with streaming enabled, whenever execute raises, every registered
\* subscriber has been delivered at least one error-level event of that run.
C13_ErrorEventBeforeRaise ==
    (mode = "exec" /\ run.pc = "raised" /\ sm.enabled) =>
        \A c \in RunSubscribers : GotErrorEvent(c)

\* the throttle key of the pipeline-level error event
PipelineErrorKey == ThrottleKey("block_error", "pipeline")

\* the last event subscriber c got is the pipeline-level error event
LastIsPipelineError(r, c) ==
    /\ Len(r[c]) > 0
    /\ r[c][Len(r[c])].type = "block_error"
    /\ r[c][Len(r[c])].block = "pipeline"
    /\ r[c][Len(r[c])].level = "error"

\* C14: a failure while blocks are executed makes execute raise a
\* PipelineRuntimeError: one wrapping the block's error, or the runtime-limit
\* error itself, not wrapped again; and the step that raises has handed the
\* pipeline-level error event to the stream manager as its last event (it is
\* delivered to every subscriber of the run, or dropped by the throttle).
C14_RaisesPipelineRuntimeError ==
    [][(mode = "exec" /\ run.pc # "raised" /\ run'.pc = "raised") =>
          /\ run'.exc.chain[1] = "PipelineRuntimeError"
          /\ IF hist'.steps # hist.steps
             THEN /\ Len(run'.exc.chain) >= 2
                  /\ run'.exc.chain[2] = "BlockRuntimeError"
                  /\ run'.exc.chain[Len(run'.exc.chain)] =
                        hist'.steps[Len(hist'.steps)].exc
             ELSE run'.exc.chain = <<"PipelineRuntimeError">>
          /\ IF Throttled(sm, PipelineErrorKey, now')
             THEN sm'.last[PipelineErrorKey] = sm.last[PipelineErrorKey]
             ELSE /\ sm'.last[PipelineErrorKey] = now'
                  /\ \A c \in RunSubscribers : LastIsPipelineError(recv', c)
      ]_vars

\* execute raised a PipelineRuntimeError wrapping the BlockRuntimeError made
\* from a RuntimeError, after the subscriber got the pipeline error event
C14_Witness ==
    /\ mode = "exec" /\ run.pc = "raised"
    /\ run.exc.chain = <<"PipelineRuntimeError", "BlockRuntimeError", "RuntimeError">>
    /\ RunSubscribers # {}
    /\ \A c \in RunSubscribers : LastIsPipelineError(recv, c)

\* the typed errors of the taxonomy a block can raise
TypedBlockErrors ==
    {"BlockRuntimeError", "InputValidationError", "OutputValidationError",
     "BlockTimeoutError"}

\* the exception _execute_block raised in the failed run: what execute
\* wrapped into its PipelineRuntimeError
BlockLevelError == Tail(run.exc.chain)

\* C15: a failure raised by a block is wrapped into a BlockRuntimeError only
\* when it is not already a typed error; a typed error (input validation,
\* output validation, timeout) is re-raised at the block level as it is.
C15_TypedErrorsKept ==
    (mode = "exec" /\ run.pc = "raised" /\ FailedSteps # {}) =>
        LET e == hist.steps[Len(hist.steps)].exc
        IN  IF e \in TypedBlockErrors
            THEN BlockLevelError = <<e>>
            ELSE BlockLevelError = <<"BlockRuntimeError", e>>

----------------------------------------------------------------------------
(* Global values in block inputs *)

\* the positions in dependency list ds of the predecessors supplying key k
Suppliers(ds, k) == {i \in 1..Len(ds) : Supplies(OutOf(ds[i]), ds[i], k)}

\* C16: in the input of a non-entry block a key supplied by a predecessor
\* keeps the predecessor's value whatever the global values hold, every
\* global key no predecessor supplied is present with the global value, and
\* the input has no other key.
C16_GlobalsFillOnly ==
    mode = "exec" =>
        \A j \in NonEntrySteps :
            LET ds  == built.deps[hist.steps[j].id]
                inp == hist.steps[j].inp
            IN  /\ \A k \in DOMAIN globals :
                      /\ k \in DOMAIN inp
                      /\ IF Suppliers(ds, k) = {}
                         THEN inp[k] = globals[k]
                         ELSE \E i \in Suppliers(ds, k) : inp[k] = Supplied(OutOf(ds[i]), k)
                /\ \A k \in DOMAIN inp :
                      k \in DOMAIN globals \/ Suppliers(ds, k) # {}

\* a non-entry block got key "x" from its predecessor although the globals
\* hold another value for "x"
C16_Witness ==
    /\ mode = "exec" /\ OutKey \in DOMAIN globals
    /\ \E j \in NonEntrySteps :
          LET ds == built.deps[hist.steps[j].id]
          IN  /\ Suppliers(ds, OutKey) # {}
              /\ hist.steps[j].inp[OutKey] # globals[OutKey]

----------------------------------------------------------------------------
(* Global parameters in the test pipeline *)

\* C17: executing input1 -> process1 -> output1 with only global_parameters
\* {"text": v} and no per-block input returns the upper-cased v.
C17_GlobalsFeedChain ==
    (mode = "exec" /\ pdef = ChainDef /\ run.pc = "returned"
        /\ run.inp.entry = <<>> /\ "text" \in DOMAIN run.inp.gp) =>
        /\ run.result.kind = "value"
        /\ run.result.value = Raw(Upper(run.inp.gp["text"]))

----------------------------------------------------------------------------
(* Entry points *)

\* block id has a dependency in definition d: a block names it in its 'next'
\* list, or the top-level "block_dependencies" field gives it one
HasDependency(d, id) ==
    \/ \E e \in Edges(d) : e[2] = id
    \/ id \in DOMAIN d.block_dependencies /\ d.block_dependencies[id] # <<>>

\* C18: construction fails with PipelineDefinitionError 'Pipeline has no
\* entry points' whenever the definition leaves no block without a
\* dependency (unless an earlier check already rejected the definition with a
\* PipelineDefinitionError), also when the dependencies come from the
\* top-level "block_dependencies" field.
C18_NoEntryPointsRejected ==
    (Constructed /\ pdef.shape = "ok"
        /\ \A id \in BlockIds(pdef) : HasDependency(pdef, id)) =>
        /\ ~built.ok
        /\ built.error = "PipelineDefinitionError"
        /\ ValidateDef(pdef) = None => built.msg = "no_entry_points"

----------------------------------------------------------------------------
(* Subscribers that raise *)

\* C19: a callback that raises during emit aborts nothing: every registered
\* subscriber, also one called after the raising callback, has received
\* exactly the events of the run that the raising callback was called with,
\* and the run goes on to its end.
C19_RaisingSubscriberHarmless ==
    mode = "exec" =>
        /\ \A c, c2 \in RunSubscribers : recv[c] = recv[c2]
        /\ \A c \in Subs \ RunSubscribers : recv[c] = <<>>
        /\ (run.pc = "returned" /\ pdef = ChainDef) => run.executed = BlockIds(pdef)

\* a run of the test pipeline returned with the raising callback registered
\* before another one, which got the events of the run
C19_Witness ==
    /\ mode = "exec" /\ pdef = ChainDef /\ run.pc = "returned"
    /\ hist.subs = <<"s2", "s1">>
    /\ Len(recv["s1"]) > 1
    /\ recv["s1"] = recv["s2"]

----------------------------------------------------------------------------
(* Block outputs across runs *)

\* C20: a run starts with no block output of an earlier run in its Context,
\* and whatever the Context holds during and after a run was produced by
\* that run.
C20_NoReuseAcrossRuns ==
    (mode = "exec" /\ nruns > 0) =>
        /\ hist.before = <<>>
        /\ \A id \in DOMAIN blockvals :
              \E j \in CompletedSteps : hist.steps[j].id = id

----------------------------------------------------------------------------
(* Overlapping runs *)

\* the steps thread t has made, in order
RECURSIVE ThreadStepsFrom(_, _)
ThreadStepsFrom(t, i) ==
    IF i > Len(hist.steps) THEN <<>>
    ELSE (IF hist.steps[i].thread = t THEN <<hist.steps[i].step>> ELSE <<>>)
         \o ThreadStepsFrom(t, i + 1)

ThreadSteps(t) == ThreadStepsFrom(t, 1)

\* the output thread t's own execution of block id produced
OwnOut(t, id) ==
    LET ss == ThreadSteps(t)
    IN  ss[CHOOSE i \in 1..Len(ss) : ss[i].id = id].out

\* the pipeline_start events the subscriber got
StartEvents(c) == {i \in 1..Len(recv[c]) : recv[c][i].type = "pipeline_start"}

\* C21: overlapping runs of one Pipeline share no block-output map, global
\* values or throttle state: every non-entry block of a run gets the input
\* computed from that run's own block outputs and global parameters, the
\* result of a run is its own output block's value, and the pipeline_start
\* event of every run reaches the subscriber.
C21_RunsOwnTheirState ==
    mode = "async" =>
        /\ \A t \in Threads :
              LET ss == ThreadSteps(t)
              IN  /\ \A j \in 1..Len(ss) :
                        ss[j].id \in DOMAIN built.deps =>
                            ss[j].inp = GetBlockInput(ss[j].id, built.deps,
                                           [p \in {ss[i].id : i \in 1..(j - 1)}
                                               |-> OwnOut(t, p)],
                                           run[t].inp.gp)
                  /\ run[t].pc = "returned" =>
                        run[t].result = Result("value", OwnOut(t, pdef.output), <<>>)
        /\ Cardinality(StartEvents("s1")) = nruns


\* what a context returns from its getters
ViewOf(heap, c) ==
    [globals |-> GlobalsOf(heap, c), blocks |-> BlockValuesOf(heap, c)]

\* C22: the clone has the pipeline id, config and StreamManager of the
\* original, the global values the original had when it was cloned and no
\* block output; cloning leaves the original as it was; and a later
\* set_global_value or set_block_value changes what only one of the two
\* contexts returns.
C22_CloneIsIndependentCopy ==
    [][mode = "clone" =>
          /\ (run.clone = NoContext /\ run'.clone # NoContext) =>
                /\ run'.clone.pipeline_id = run.original.pipeline_id
                /\ run'.clone.config = run.original.config
                /\ run'.clone.stream_manager = run.original.stream_manager
                /\ GlobalsOf(globals', run'.clone) = GlobalsOf(globals, run.original)
                /\ BlockValuesOf(globals', run'.clone) = <<>>
                /\ ViewOf(globals', run'.original) = ViewOf(globals, run.original)
          /\ (run.clone # NoContext /\ run'.clone # NoContext) =>
                \/ ViewOf(globals', run'.original) = ViewOf(globals, run.original)
                \/ ViewOf(globals', run'.clone) = ViewOf(globals, run.clone)]_vars

\* the original was cloned with a non-empty global map and a block output,
\* and the two contexts have since been given different global values
C22_Witness ==
    /\ mode = "clone"
    /\ run.clone # NoContext
    /\ hist.before # <<>>
    /\ BlockValuesOf(globals, run.original) # <<>>
    /\ BlockValuesOf(globals, run.clone) = <<>>
    /\ GlobalsOf(globals, run.clone) # GlobalsOf(globals, run.original)

\* the operations of a call trace, in order
OpsOf(calls) == [i \in 1..Len(calls) |-> calls[i].op]

\* the positions of operation op in a call trace
At(calls, op) == {i \in 1..Len(calls) : calls[i].op = op}

\* the calls of a trace that are stages of the try block
StagesIn(calls) == SelectSeq(OpsOf(calls), LAMBDA o : o \notin {"emit_start", "emit_complete", "emit_error"})

C24_TypeFilter ==
    [][(mode = "stream" /\ emits'.type # None /\ sm.include # {}) =>
          /\ (\E c \in Subs : recv'[c] # <<>>) =>
                LeadingSegment(emits'.block) \in sm.include
          /\ LeadingSegment(emits'.block) \notin sm.include =>
                /\ \A c \in Subs : recv'[c] = <<>>
                /\ sm'.last = sm.last
                /\ ~emits'.accepted]_vars

\* an error-level event of the pipeline itself dropped by a filter that
\* names only a block type, with a subscriber registered and nothing to
\* throttle it
C24_Witness ==
    /\ Emitted
    /\ sm.include = {"text"}
    /\ emits.block = "pipeline"
    /\ emits.level = "error"
    /\ Registered # {}
    /\ ~WithinInterval
    /\ ~emits.accepted
    /\ DeliveredToNone

\* C25: an emission that gets past the level and type filters is dropped only
\* when the last delivered event of its own (type, block) pair is less than
\* the throttle interval old, never on account of another pair; and an
\* emission that is dropped for any reason leaves the throttle table as it
\* was, so it does not postpone the next accepted emission of its pair.
C25_ThrottleClockPerKey ==
    [][(mode = "stream" /\ emits'.type # None) =>
          /\ ~emits'.accepted => sm'.last = sm.last
          /\ (PassesFilters' /\ ~emits'.accepted) => WithinInterval']_vars

\* the callbacks in a subscriber list
InList(subs) == {subs[i] : i \in 1..Len(subs)}

\* C29: when an accepted event is fanned out, every subscriber that was
\* registered when the emission started and is still registered when it ends
\* has received that event exactly once, whatever the callbacks do to the
\* subscriber list meanwhile.
C29_FanOutUndisturbed ==
    [][(mode = "stream" /\ emits'.type # None /\ emits'.accepted) =>
          \A c \in InList(sm.subscribers) \cap InList(sm'.subscribers) :
              Len(recv'[c]) = 1]_vars

\* no callback occurs twice in a subscriber list
NoDuplicates(subs) == \A i, j \in 1..Len(subs) : subs[i] = subs[j] => i = j

\* C26: a callback is never registered twice; an accepted event is handed
\* exactly once to every callback registered when it is emitted and to no
\* callback that was removed before; removing a callback that is not
\* registered leaves the manager as it is.
C26_SubscribersOnce ==
    [][mode = "stream" =>
          /\ NoDuplicates(sm'.subscribers)
          /\ \A c \in (Subs \cup MutatingSubs) \ InList(sm'.subscribers) :
                RemoveSub(sm', c) = sm'
          /\ (emits'.type # None /\ emits'.accepted) =>
                /\ \A c \in InList(sm.subscribers) : Len(recv'[c]) = 1
                /\ \A c \in (Subs \cup MutatingSubs) \ InList(sm'.subscribers) :
                      Len(recv'[c]) <= (IF c \in InList(sm.subscribers) THEN 1 ELSE 0)]_vars

\* the data of the pipeline_complete events subscriber c got
CompleteReports(c) ==
    {recv[c][i].data : i \in {j \in 1..Len(recv[c]) : recv[c][j].type = "pipeline_complete"}}

\* C27: during a run the executed and the pending blocks are disjoint and
\* together are the blocks of the definition; a run that returns (no block
\* failed, the runtime limit was not hit) has executed every block exactly
\* once and left none pending, and a pipeline_complete event that reaches a
\* subscriber reports just that.
C27_AllBlocksExecuted ==
    (mode = "exec" /\ run.pc \in {"entry", "loop", "returned"}) =>
        /\ run.executed \cap run.pending = {}
        /\ run.executed \cup run.pending = BlockIds(pdef)
        /\ run.pc = "returned" =>
              /\ run.pending = {}
              /\ run.executed = BlockIds(pdef)
              /\ \A id \in BlockIds(pdef) : Cardinality(StepsOf(id)) = 1
              /\ \A c \in Subs : \A d \in CompleteReports(c) :
                    d.pending = {} /\ d.executed = BlockIds(pdef)

\* the position of the block spec of id in the definition
SpecPos(d, id) == CHOOSE i \in 1..Len(d.blocks) : d.blocks[i].id = id

\* the blocks whose spec names id in its 'next'
Predecessors(d, id) ==
    {d.blocks[i].id : i \in {j \in 1..Len(d.blocks) : id \in d.blocks[j].next}}

\* C28: the input of a block with predecessors is determined by the
\* definition, the predecessors' outputs and the global values alone: a key
\* supplied by predecessors has the value of the supplier whose block spec is
\* last in the definition, whatever the order in which the scheduler ran
\* them; any other key comes from the global values.
C28_InputIndependentOfSchedule ==
    mode = "exec" =>
        \A j \in NonEntrySteps :
            LET id  == hist.steps[j].id
                inp == hist.steps[j].inp
                sup(k) == {p \in Predecessors(pdef, id) : Supplies(OutOf(p), p, k)}
            IN  /\ DOMAIN inp = {k \in InputKeys : sup(k) # {}} \cup DOMAIN globals
                /\ \A k \in DOMAIN inp :
                      IF sup(k) = {} THEN inp[k] = globals[k]
                      ELSE LET l == CHOOSE p \in sup(k) :
                                       \A q \in sup(k) : SpecPos(pdef, q) <= SpecPos(pdef, p)
                           IN  inp[k] = Supplied(OutOf(l), k)

\* in the diamond the scheduler ran "c" before "x", both supplied the same key
\* with different values, and the join got the value of "c", whose block spec
\* is the later one
C28_Witness ==
    /\ mode = "exec" /\ IsDiamond(pdef)
    /\ \E i \in StepsOf("c"), j \in StepsOf("x"), n \in StepsOf("d") :
          /\ i < j
          /\ OutOf("x") = Dict([k \in {OutKey} |-> 1])
          /\ OutOf("c") = Dict([k \in {OutKey} |-> 2])
          /\ hist.steps[n].inp[OutKey] = 2

\* the blocks of d that no block names in its 'next'
Sources(d) == {id \in BlockIds(d) : \A e \in Edges(d) : e[2] # id}

====
